---------------------------- MODULE Spec2Model ----------------------------
(***************************************************************************)
(* EventHorizon: an Express.js API over a SQL Server database (Events and  *)
(* Attendees), in the variants the repository holds:                       *)
(*   "part_000"   src/unnamed/part_000: routes under /api, each behind a   *)
(*                pool guard, for Events and Attendees.  The Events routes *)
(*                and connectDB of src/backend/server.js are the same code *)
(*                statement for statement, and so are the Events routes of *)
(*                src/unnamed/part_001; part_000 stands for the three.     *)
(*   "cicd.yml"   src/.github/workflows/cicd.yml (lines 64-321): routes    *)
(*                /events with date validation, trim and a COALESCE update *)
(* A route handler runs without interruption up to each await of a         *)
(* database call; the database executes one statement atomically, and the  *)
(* handler resumes with its result.  Each of these pieces is one action.   *)
(***************************************************************************)
EXTENDS Integers, Sequences, FiniteSets, Bags, TLC

VARIABLES
    variant,         \* which of the server files is running
    pool,            \* `let pool`: TRUE once sql.connect() has resolved
    conn,            \* where connectDB / connectToDatabase stands
    Events,          \* the Events table: a set of rows
    Attendees,       \* the Attendees table: a set of rows
    nextEventId,     \* the IDENTITY counter of Events.id
    nextAttendeeId,  \* the IDENTITY counter of Attendees.id
    reqs,            \* the bag of requests whose handler is suspended at an await
    res,             \* the HTTP response the last step sent, if it sent one
    proc,            \* the server process: database, pool object, sockets, signals, exit
    client           \* the React component EventManagement in a browser

vars ==
    <<variant, pool, conn, Events, Attendees, nextEventId, nextAttendeeId, reqs, res,
      proc, client>>

(***************************************************************************)
(* Bounds of the model.                                                    *)
(***************************************************************************)
MaxEvents == 2      \* rows the Events table receives over a run
MaxAttendees == 1   \* rows the Attendees table receives over a run
MaxInFlight == 2    \* handlers suspended at the same time

EventIds == 1..MaxEvents
\* ids a client puts in a URL
UrlIds == EventIds

Variants == {"part_000", "cicd.yml"}

(***************************************************************************)
(* JavaScript values of the request body's fields: undefined, or a value.  *)
(* Text is a sequence of characters, so that trim() and emptiness are      *)
(* computed; a date is the string the client sent.                         *)
(***************************************************************************)
UndefinedText == [def |-> FALSE, v |-> <<>>]
UndefinedDate == [def |-> FALSE, v |-> ""]
UndefinedNumber == [def |-> FALSE, v |-> 0]
Val(x) == [def |-> TRUE, v |-> x]

\* JavaScript truthiness (`!name`): undefined, "" and 0 are falsy
TruthyText(x) == x.def /\ x.v # <<>>
TruthyDate(x) == x.def /\ x.v # ""
TruthyNumber(x) == x.def /\ x.v # 0

IsSpace(c) == c = " "

RECURSIVE TrimStart(_)
TrimStart(s) == IF s # <<>> /\ IsSpace(Head(s)) THEN TrimStart(Tail(s)) ELSE s

RECURSIVE TrimEnd(_)
TrimEnd(s) ==
    IF s # <<>> /\ IsSpace(s[Len(s)]) THEN TrimEnd(SubSeq(s, 1, Len(s) - 1)) ELSE s

\* String.prototype.trim
Trim(s) == TrimEnd(TrimStart(s))

\* `x?.trim()`: undefined stays undefined (and is sent as NULL)
OptTrim(x) == IF x.def THEN Val(Trim(x.v)) ELSE UndefinedText

(***************************************************************************)
(* new Date(string): the instant in seconds since the epoch, or an Invalid *)
(* Date.  Two spellings of one instant parse to the same value.            *)
(***************************************************************************)
InvalidDate == [valid |-> FALSE, t |-> 0]

NewDate(s) ==
    CASE s = "2025-06-01T10:00:00Z"     -> [valid |-> TRUE, t |-> 1748772000]
      [] s = "2025-06-01T10:00:00.000Z" -> [valid |-> TRUE, t |-> 1748772000]
      [] s = "2025-06-02T10:00:00.000Z" -> [valid |-> TRUE, t |-> 1748858400]
      [] OTHER                          -> InvalidDate

\* Date.prototype.toISOString, as res.json() serialises a DATETIME column
ToISOString(t) ==
    CASE t = 1748772000 -> "2025-06-01T10:00:00.000Z"
      [] t = 1748858400 -> "2025-06-02T10:00:00.000Z"
      [] OTHER          -> "Invalid Date"

(***************************************************************************)
(* Request bodies as the client sends them (JSON objects).                 *)
(***************************************************************************)
Body(n, d, l, e, ev) ==
    [name |-> n, date |-> d, location |-> l, email |-> e, eventId |-> ev,
     id |-> UndefinedNumber]

\* the body with an `id` member added
WithId(body, i) == [body EXCEPT !.id = Val(i)]

NoBody == Body(UndefinedText, UndefinedDate, UndefinedText, UndefinedText, UndefinedNumber)

EventBody(n, d, l) == Body(n, d, l, UndefinedText, UndefinedNumber)

Launch == Val(<<"L">>)
Blank == Val(<<" ">>)
Empty == Val(<<>>)
HQ == Val(<<"H">>)
June1 == Val("2025-06-01T10:00:00Z")
June2 == Val("2025-06-02T10:00:00.000Z")
BadDate == Val("not-a-date")
EmptyDate == Val("")

EventBodies ==
    { EventBody(Launch, June1, HQ),                     \* the spec's scenario
      EventBody(Blank, June2, HQ),                      \* whitespace-only name
      EventBody(Launch, BadDate, HQ),                   \* unparsable date
      EventBody(UndefinedText, June1, HQ),              \* name missing
      EventBody(Empty, June1, HQ),                      \* name empty
      EventBody(Launch, EmptyDate, HQ),                 \* date empty
      EventBody(Launch, June1, Empty),                  \* location empty
      EventBody(Blank, UndefinedDate, UndefinedText),   \* only name
      WithId(EventBody(Launch, June1, HQ), MaxEvents),  \* carries an id
      NoBody }                                          \* {}

AttendeeBody(n, e, ev) == Body(n, UndefinedDate, UndefinedText, e, ev)

Ann == Val(<<"A">>)
Mail == Val(<<"a", "@", "x">>)

AttendeeBodies ==
    { AttendeeBody(Ann, Mail, Val(i)) : i \in 0..MaxEvents }
      \cup { AttendeeBody(UndefinedText, Mail, Val(1)),
             AttendeeBody(Ann, Empty, Val(1)),
             AttendeeBody(Ann, Mail, UndefinedNumber) }

(***************************************************************************)
(* What the server files differ in.  part_000 mounts express.json();       *)
(* cicd.yml mounts no body parser, and Express then leaves req.body        *)
(* undefined.                                                              *)
(***************************************************************************)
Api(v) == v # "cicd.yml"

JsonParser(v) == Api(v)

HasAttendees(v) == v = "part_000"

\* connectToDatabase of cicd.yml runs SELECT 1 on the new pool
TestsPool(v) == v = "cicd.yml"

\* the catch block of connectDB calls setTimeout(connectDB, ...); that of
\* part_001 does not
Retries(v) == v # "part_001"

\* cicd.yml registers shutdown for SIGTERM and SIGINT
HandlesSignals(v) == v = "cicd.yml"

\* cicd.yml serves GET / and ends its middleware chain with an error handler
HasHealthRoute(v) == v = "cicd.yml"
HasErrorMiddleware(v) == v = "cicd.yml"

(***************************************************************************)
(* Rows, and the JSON a row is sent as.                                    *)
(***************************************************************************)
EventRow(i, n, d, l) == [id |-> i, name |-> n, date |-> d, location |-> l]

AttendeeRow(i, n, e, ev) == [id |-> i, name |-> n, email |-> e, event_id |-> ev]

\* res.json(row): the DATETIME column leaves as an ISO string
EventJson(row) == [row EXCEPT !.date = ToISOString(row.date)]

(***************************************************************************)
(* The SQL statements.                                                     *)
(***************************************************************************)
\* SELECT 1 FROM Events WHERE id = @id
SelectEventById(T, i) == {row \in T : row.id = i}

\* INSERT INTO Events (name, date, location) OUTPUT INSERTED.* VALUES (...)
InsertEvent(i, n, d, l) == EventRow(i, n, d, l)

\* UPDATE Events SET name = @name, date = @date, location = @location
\*   OUTPUT INSERTED.* WHERE id = @id
ApiUpdateRow(row, n, d, l) == EventRow(row.id, n.v, d.v, l.v)

\* COALESCE(@p, column): the column's value when the parameter is NULL
Coalesce(p, column) == IF p.def THEN p.v ELSE column

\* UPDATE Events SET name = COALESCE(@name, name), date = COALESCE(@date, date),
\*   location = COALESCE(@location, location) OUTPUT INSERTED.* WHERE id = @id
UpdateRow(row, n, d, l) ==
    EventRow(row.id, Coalesce(n, row.name), Coalesce(d, row.date),
             Coalesce(l, row.location))

\* a DELETE that reports the row and leaves it in the table
DeleteFromEventsKeepsRow(T, i) == T

\* DELETE FROM Events OUTPUT DELETED.* WHERE id = @id
DeleteFromEvents(T, i) == {row \in T : row.id # i}

\* a SELECT that joins Events, and so leaves out the rows whose event is gone
SelectAttendeesOfLiveEvent(A, i) ==
    {row \in A : row.event_id = i /\ \E e \in Events : e.id = i}

\* SELECT * FROM Attendees WHERE event_id = @eventId
SelectAttendeesByEvent(A, i) == {row \in A : row.event_id = i}

\* the orders a result set of the rows S can come in
Orders(S) ==
    {o \in [1..Cardinality(S) -> S] : \A i, j \in 1..Cardinality(S) : o[i] = o[j] => i = j}

\* ... ORDER BY date DESC
OrdersByDateDesc(S) ==
    {o \in Orders(S) : \A i, j \in 1..Cardinality(S) : i < j => o[i].date >= o[j].date}

\* sql.DateTime rejects an Invalid Date when the request is executed
DateTimeAccepts(d) == d.valid

(***************************************************************************)
(* Requests and responses.                                                 *)
(***************************************************************************)
Request(route, i, body) == [route |-> route, id |-> i, body |-> body, pc |-> "idle"]

Idle == Request("none", 0, NoBody)

\* A response.  `connected` (was pool set when the handler started) and
\* `dbError` (did a database call of the handler fail in the database or on
\* the way to it) are recorded with it.
Response(rq, status, error, payload, connected, dbError) ==
    [route |-> rq.route, id |-> rq.id, body |-> rq.body, status |-> status,
     error |-> error, payload |-> payload, connected |-> connected,
     dbError |-> dbError]

NoResponse == Response(Idle, 0, "", <<>>, FALSE, FALSE)

\* room for one more suspended handler
CanAccept == BagCardinality(reqs) < MaxInFlight /\ ~proc.exited

\* res.status(...).json(...) before the handler's first await
Answer(rq, status, error, payload, connected, dbError) ==
    /\ res' = Response(rq, status, error, payload, connected, dbError)
    /\ UNCHANGED reqs

\* the handler reaches its first await of a database call
Await(rq, stmt) ==
    /\ reqs' = reqs (+) SetToBag({[rq EXCEPT !.pc = stmt]})
    /\ res' = NoResponse

\* res.status(...).json(...) of a handler that was suspended
Respond(rq, status, error, payload, connected, dbError) ==
    /\ res' = Response(rq, status, error, payload, connected, dbError)
    /\ reqs' = reqs (-) SetToBag({rq})

\* a handler that was suspended reaches its next await
AwaitNext(rq, stmt) ==
    /\ reqs' = (reqs (-) SetToBag({rq})) (+) SetToBag({[rq EXCEPT !.pc = stmt]})
    /\ res' = NoResponse

\* the suspended handlers that await the statement stmt
Suspended(stmt) == {rq \in BagToSet(reqs) : rq.pc = stmt}

\* how many of them there are
InFlight(stmt) == BagCardinality([rq \in Suspended(stmt) |-> reqs[rq]])

\* rows the pending INSERTs may still add
RoomForEvent == nextEventId + InFlight("INSERT Events") <= MaxEvents
RoomForAttendee ==
    nextAttendeeId + InFlight("INSERT Attendees") <= MaxAttendees

\* The process after start-up: listening, no signal received; the database
\* is up, no client holds a connection to the server open.
Booted ==
    [dbUp |-> TRUE, poolOpen |-> FALSE, listening |-> TRUE, sockets |-> 0,
     signals |-> 0, closing |-> 0, draining |-> 0, exited |-> FALSE, exitCode |-> 0]

\* no browser has the component open
NoClient == [component |-> "none"]

Init ==
    /\ variant \in Variants
    /\ proc = Booted
    /\ client = NoClient
    /\ pool = FALSE
    /\ conn = "connecting"
    /\ Events = {}
    /\ Attendees = {}
    /\ nextEventId = 1
    /\ nextAttendeeId = 1
    /\ reqs = EmptyBag
    /\ res = NoResponse

(***************************************************************************)
(* connectDB (server.js, part_000, part_001), connectToDatabase (cicd.yml) *)
(***************************************************************************)
\* sql.connect() resolves: pool is assigned, and the pool object is open
ConnectResolves ==
    /\ conn = "connecting" /\ ~proc.exited /\ proc.dbUp
    /\ pool' = TRUE
    /\ proc' = [proc EXCEPT !.poolOpen = TRUE]
    /\ conn' = IF TestsPool(variant) THEN "testing" ELSE "settled"
    /\ UNCHANGED <<client, variant, Events, Attendees, nextEventId, nextAttendeeId, reqs>>
    /\ res' = NoResponse

\* sql.connect() rejects: the catch block schedules a retry, or, in
\* part_001, only logs the error
ConnectRejects ==
    /\ conn = "connecting" /\ ~proc.exited
    /\ conn' = IF Retries(variant) THEN "timer" ELSE "settled"
    /\ UNCHANGED <<proc, client, variant, pool, Events, Attendees, nextEventId,
                   nextAttendeeId, reqs>>
    /\ res' = NoResponse

\* cicd.yml: await pool.request().query("SELECT 1"), which can succeed only
\* on an open pool to a database that is up
TestQueryDone(ok) ==
    /\ conn = "testing" /\ ~proc.exited
    /\ ok => (proc.dbUp /\ proc.poolOpen)
    /\ conn' = IF ok THEN "settled" ELSE "timer"
    /\ UNCHANGED <<proc, client, variant, pool, Events, Attendees, nextEventId,
                   nextAttendeeId, reqs>>
    /\ res' = NoResponse

\* setTimeout(connectDB, 5000) / setTimeout(connectToDatabase, 8000) fires
RetryTimer ==
    /\ conn = "timer" /\ ~proc.exited
    /\ conn' = "connecting"
    /\ UNCHANGED <<proc, client, variant, pool, Events, Attendees, nextEventId,
                   nextAttendeeId, reqs>>
    /\ res' = NoResponse

(***************************************************************************)
(* The Events routes: those of part_000 under /api (the Api... actions),   *)
(* and those of cicd.yml.                                                  *)
(***************************************************************************)
\* handlers that do not validate the body
MissingFieldsDropped(body) == FALSE

\* `!name || !date || !location`
MissingFields(body) ==
    ~TruthyText(body.name) \/ ~TruthyDate(body.date) \/ ~TruthyText(body.location)

\* isNaN(new Date(date).getTime())
InvalidDateFormat(body) == ~NewDate(body.date.v).valid

\* the .input() values of the INSERT and of the UPDATE of part_000
ApiInsertInputs(body) ==
    [name |-> body.name, date |-> Val(NewDate(body.date.v).t),
     location |-> body.location, dateOk |-> DateTimeAccepts(NewDate(body.date.v))]

\* the .input() values of the INSERT of cicd.yml: name.trim(), location.trim()
InsertInputs(body) ==
    [name |-> Val(Trim(body.name.v)), date |-> Val(NewDate(body.date.v).t),
     location |-> Val(Trim(body.location.v)),
     dateOk |-> DateTimeAccepts(NewDate(body.date.v))]

\* the .input() values of the UPDATE of cicd.yml:
\* name?.trim(), date ? new Date(date) : null, location?.trim()
UpdateInputs(body) ==
    [name |-> OptTrim(body.name),
     date |-> IF TruthyDate(body.date) THEN Val(NewDate(body.date.v).t)
              ELSE UndefinedNumber,
     location |-> OptTrim(body.location),
     dateOk |-> TruthyDate(body.date) => DateTimeAccepts(NewDate(body.date.v))]

\* handlers without the guard
NotConnectedDropped(p) == FALSE

\* `if (!pool)`: the guard at the head of every /api handler
NotConnected(p) == ~p

\* `exists.recordset.length === 0`, `result.recordset.length === 0`
NotFound(recordset) == recordset = {}

\* a handler that does not look at the result of its existence check
EventMissingDropped(eventExists) == FALSE

\* `!eventExists.recordset.length`
EventMissing(eventExists) == Cardinality(eventExists) = 0

Untouched ==
    <<variant, pool, conn, Events, Attendees, nextEventId, nextAttendeeId, proc, client>>

\* app.get("/api/events") up to its await
ApiGetEvents ==
    /\ Api(variant) /\ CanAccept
    /\ LET rq == Request("GET /api/events", 0, NoBody) IN
        IF NotConnected(pool) THEN Answer(rq, 500, "DB not connected", <<>>, FALSE, FALSE)
        ELSE Await(rq, "SELECT Events")
    /\ UNCHANGED Untouched

\* app.get("/events") up to its await; pool.request() throws while pool is
\* undefined, inside the try block
GetEvents ==
    /\ ~Api(variant) /\ CanAccept
    /\ LET rq == Request("GET /events", 0, NoBody) IN
        IF ~pool THEN Answer(rq, 500, "Failed to fetch events", <<>>, FALSE, FALSE)
        ELSE Await(rq, "SELECT Events")
    /\ UNCHANGED Untouched

\* SELECT * FROM Events [ORDER BY date DESC] returns; res.json(result.recordset)
EventsSelected(rq, ok, o) ==
    /\ rq.pc = "SELECT Events"
    /\ o \in (IF Api(variant) THEN Orders(Events) ELSE OrdersByDateDesc(Events))
    /\ IF ok
       THEN Respond(rq, 200, "", [i \in DOMAIN o |-> EventJson(o[i])], TRUE, FALSE)
       ELSE Respond(rq, 500, "Failed to fetch events", <<>>, TRUE, TRUE)
    /\ UNCHANGED Untouched

\* app.post("/api/events") up to its await
ApiPostEvents(body) ==
    /\ Api(variant) /\ CanAccept /\ RoomForEvent
    /\ LET rq == Request("POST /api/events", 0, body) IN
        IF NotConnected(pool) THEN Answer(rq, 500, "DB not connected", <<>>, FALSE, FALSE)
        ELSE IF MissingFields(body)
        THEN Answer(rq, 400, "Missing fields", <<>>, TRUE, FALSE)
        ELSE Await(rq, "INSERT Events")
    /\ UNCHANGED Untouched

\* app.post("/events") up to its await.  Destructuring req.body throws when
\* no body parser has set it; the catch block answers 500.
PostEvents(body) ==
    /\ ~Api(variant) /\ CanAccept /\ RoomForEvent
    /\ LET rq == Request("POST /events", 0, body) IN
        IF ~JsonParser(variant)
        THEN Answer(rq, 500, "Failed to create event", <<>>, pool, FALSE)
        ELSE IF MissingFields(body)
        THEN Answer(rq, 400, "Missing required fields", <<>>, pool, FALSE)
        ELSE IF InvalidDateFormat(body)
        THEN Answer(rq, 400, "Invalid date format", <<>>, pool, FALSE)
        ELSE IF ~pool
        THEN Answer(rq, 500, "Failed to create event", <<>>, FALSE, FALSE)
        ELSE Await(rq, "INSERT Events")
    /\ UNCHANGED Untouched

\* the INSERT returns; res.status(201).json(result.recordset[0])
EventInserted(rq, ok) ==
    /\ rq.pc = "INSERT Events"
    /\ LET in == IF Api(variant) THEN ApiInsertInputs(rq.body) ELSE InsertInputs(rq.body)
           row == InsertEvent(nextEventId, in.name.v, in.date.v, in.location.v)
       IN  IF ok /\ in.dateOk
           THEN /\ Events' = Events \cup {row}
                /\ nextEventId' = nextEventId + 1
                /\ Respond(rq, 201, "", <<EventJson(row)>>, TRUE, FALSE)
           ELSE /\ UNCHANGED <<Events, nextEventId>>
                /\ Respond(rq, 500, "Failed to create event", <<>>, TRUE, ~ok)
    /\ UNCHANGED <<proc, client, variant, pool, conn, Attendees, nextAttendeeId>>

\* app.put("/api/events/:id") up to its first await
ApiPutEvent(i, body) ==
    /\ Api(variant) /\ CanAccept
    /\ LET rq == Request("PUT /api/events/:id", i, body) IN
        IF NotConnected(pool) THEN Answer(rq, 500, "DB not connected", <<>>, FALSE, FALSE)
        ELSE IF MissingFields(body)
        THEN Answer(rq, 400, "Missing fields", <<>>, TRUE, FALSE)
        ELSE Await(rq, "SELECT 1 Events")
    /\ UNCHANGED Untouched

\* app.put("/events/:id") up to its first await
PutEvent(i, body) ==
    /\ ~Api(variant) /\ CanAccept
    /\ LET rq == Request("PUT /events/:id", i, body) IN
        IF ~JsonParser(variant) \/ ~pool
        THEN Answer(rq, 500, "Failed to update event", <<>>, pool, FALSE)
        ELSE Await(rq, "SELECT 1 Events")
    /\ UNCHANGED Untouched

\* the existence check returns: 404, or the UPDATE is sent
EventChecked(rq, ok) ==
    /\ rq.pc = "SELECT 1 Events"
    /\  IF ~ok THEN Respond(rq, 500, "Failed to update event", <<>>, TRUE, TRUE)
        ELSE IF NotFound(SelectEventById(Events, rq.id))
        THEN Respond(rq, 404, "Event not found", <<>>, TRUE, FALSE)
        ELSE AwaitNext(rq, "UPDATE Events")
    /\ UNCHANGED Untouched

\* an UPDATE that also sets the id column, from the body's id
UpdateEventsSetsId(v, T, i, body) ==
    {IF row.id = i /\ body.id.def THEN [row EXCEPT !.id = body.id.v] ELSE row : row \in T}

\* the rows of T after the UPDATE of the row with id i
UpdateEvents(v, T, i, body) ==
    {IF row.id # i THEN row
     ELSE IF Api(v)
          THEN ApiUpdateRow(row, ApiInsertInputs(body).name,
                            ApiInsertInputs(body).date, ApiInsertInputs(body).location)
          ELSE UpdateRow(row, UpdateInputs(body).name, UpdateInputs(body).date,
                         UpdateInputs(body).location) : row \in T}

\* the UPDATE returns; res.json(result.recordset[0]), which is undefined
\* when the UPDATE matched no row
EventUpdated(rq, ok) ==
    /\ rq.pc = "UPDATE Events"
    /\ LET dateOk == IF Api(variant) THEN ApiInsertInputs(rq.body).dateOk
                     ELSE UpdateInputs(rq.body).dateOk
           after == UpdateEvents(variant, Events, rq.id, rq.body)
           recordset == SelectEventById(after, rq.id)
       IN  IF ok /\ dateOk
           THEN /\ Events' = after
                /\ Respond(rq, 200, "",
                           IF recordset = {} THEN <<>>
                           ELSE <<EventJson(CHOOSE row \in recordset : TRUE)>>,
                           TRUE, FALSE)
           ELSE /\ UNCHANGED Events
                /\ Respond(rq, 500, "Failed to update event", <<>>, TRUE, ~ok)
    /\ UNCHANGED <<proc, client, variant, pool, conn, Attendees, nextEventId, nextAttendeeId>>

\* app.delete("/api/events/:id") up to its await
ApiDeleteEvent(i) ==
    /\ Api(variant) /\ CanAccept
    /\ LET rq == Request("DELETE /api/events/:id", i, NoBody) IN
        IF NotConnected(pool) THEN Answer(rq, 500, "DB not connected", <<>>, FALSE, FALSE)
        ELSE Await(rq, "DELETE Events")
    /\ UNCHANGED Untouched

\* app.delete("/events/:id") up to its await
DeleteEvent(i) ==
    /\ ~Api(variant) /\ CanAccept
    /\ LET rq == Request("DELETE /events/:id", i, NoBody) IN
        IF ~pool THEN Answer(rq, 500, "Failed to delete event", <<>>, FALSE, FALSE)
        ELSE Await(rq, "DELETE Events")
    /\ UNCHANGED Untouched

\* the DELETE returns, and the handler has no check of result.recordset:
\* it answers 200 with result.recordset[0], which may be no row
EventDeletedUnchecked(rq, ok) ==
    /\ rq.pc = "DELETE Events"
    /\ LET recordset == SelectEventById(Events, rq.id)
       IN  IF ~ok
           THEN /\ UNCHANGED Events
                /\ Respond(rq, 500, "Failed to delete event", <<>>, TRUE, TRUE)
           ELSE /\ Events' = DeleteFromEvents(Events, rq.id)
                /\ Respond(rq, 200, "",
                           IF recordset = {} THEN <<>>
                           ELSE <<EventJson(CHOOSE row \in recordset : TRUE)>>,
                           TRUE, FALSE)
    /\ UNCHANGED <<proc, client, variant, pool, conn, Attendees, nextEventId, nextAttendeeId>>

\* the DELETE returns: 404 when result.recordset is empty, else the row
EventDeleted(rq, ok) ==
    /\ rq.pc = "DELETE Events"
    /\ LET recordset == SelectEventById(Events, rq.id)
       IN  IF ~ok
           THEN /\ UNCHANGED Events
                /\ Respond(rq, 500, "Failed to delete event", <<>>, TRUE, TRUE)
           ELSE /\ Events' = DeleteFromEvents(Events, rq.id)
                /\ IF NotFound(recordset)
                   THEN Respond(rq, 404, "Event not found", <<>>, TRUE, FALSE)
                   ELSE Respond(rq, 200, "",
                                <<EventJson(CHOOSE row \in recordset : TRUE)>>, TRUE, FALSE)
    /\ UNCHANGED <<proc, client, variant, pool, conn, Attendees, nextEventId, nextAttendeeId>>

(***************************************************************************)
(* The Attendees routes (part_000).                                        *)
(***************************************************************************)
\* `!name || !email || !eventId`
MissingAttendeeFields(body) ==
    ~TruthyText(body.name) \/ ~TruthyText(body.email) \/ ~TruthyNumber(body.eventId)

\* app.get("/api/attendees") up to its await
ApiGetAttendees ==
    /\ HasAttendees(variant) /\ CanAccept
    /\ LET rq == Request("GET /api/attendees", 0, NoBody) IN
        IF NotConnected(pool) THEN Answer(rq, 500, "DB not connected", <<>>, FALSE, FALSE)
        ELSE Await(rq, "SELECT Attendees")
    /\ UNCHANGED Untouched

\* app.get("/api/events/:id/attendees") up to its await
ApiGetEventAttendees(i) ==
    /\ HasAttendees(variant) /\ CanAccept
    /\ LET rq == Request("GET /api/events/:id/attendees", i, NoBody) IN
        IF NotConnected(pool) THEN Answer(rq, 500, "DB not connected", <<>>, FALSE, FALSE)
        ELSE Await(rq, "SELECT Attendees")
    /\ UNCHANGED Untouched

\* SELECT * FROM Attendees [WHERE event_id = @eventId] returns
AttendeesSelected(rq, ok, o) ==
    /\ rq.pc = "SELECT Attendees"
    /\ o \in Orders(IF rq.route = "GET /api/attendees" THEN Attendees
                    ELSE SelectAttendeesByEvent(Attendees, rq.id))
    /\ IF ok THEN Respond(rq, 200, "", o, TRUE, FALSE)
       ELSE Respond(rq, 500, "Failed to fetch attendees", <<>>, TRUE, TRUE)
    /\ UNCHANGED Untouched

\* app.post("/api/attendees") up to its first await
ApiPostAttendees(body) ==
    /\ HasAttendees(variant) /\ CanAccept /\ RoomForAttendee
    /\ LET rq == Request("POST /api/attendees", 0, body) IN
        IF NotConnected(pool) THEN Answer(rq, 500, "Database not connected", <<>>, FALSE, FALSE)
        ELSE IF MissingAttendeeFields(body)
        THEN Answer(rq, 400, "Missing required fields", <<>>, TRUE, FALSE)
        ELSE Await(rq, "SELECT 1 Events for attendee")
    /\ UNCHANGED Untouched

\* the existence check of the event returns: 404, or the INSERT is sent
AttendeeEventChecked(rq, ok) ==
    /\ rq.pc = "SELECT 1 Events for attendee"
    /\  IF ~ok THEN Respond(rq, 500, "Failed to register attendee", <<>>, TRUE, TRUE)
        ELSE IF EventMissing(SelectEventById(Events, rq.body.eventId.v))
        THEN Respond(rq, 404, "Event not found", <<>>, TRUE, FALSE)
        ELSE AwaitNext(rq, "INSERT Attendees")
    /\ UNCHANGED Untouched

\* the INSERT INTO Attendees returns; res.status(201).json(result.recordset[0])
AttendeeInserted(rq, ok) ==
    /\ rq.pc = "INSERT Attendees"
    /\ LET row == AttendeeRow(nextAttendeeId, rq.body.name.v, rq.body.email.v,
                              rq.body.eventId.v)
       IN  IF ok
           THEN /\ Attendees' = Attendees \cup {row}
                /\ nextAttendeeId' = nextAttendeeId + 1
                /\ Respond(rq, 201, "", <<row>>, TRUE, FALSE)
           ELSE /\ UNCHANGED <<Attendees, nextAttendeeId>>
                /\ Respond(rq, 500, "Failed to register attendee", <<>>, TRUE, TRUE)
    /\ UNCHANGED <<proc, client, variant, pool, conn, Events, nextEventId>>

(***************************************************************************)
(* cors() and the error-handling middleware of cicd.yml.  The cors()       *)
(* of the /api servers has a fixed origin and raises no error.             *)
(***************************************************************************)
Origins == {"", "http://localhost:3000", "https://elsewhere.example"}

\* `!origin || allowedOrigins.includes(origin)`
OriginAllowed(origin) ==
    \/ origin = ""
    \/ origin \in {"http://localhost:3000",
                    "https://eventhorizon-eufth7a5ambghxef.azurewebsites.net",
                    "https://www.getpostman.com"}

\* an error middleware that answers 503 to everything
ErrorStatusAlways503(isRequestError) == 503

\* `if (err instanceof sql.RequestError) return res.status(503)...;
\*  res.status(500)...`
ErrorStatus(isRequestError) == IF isRequestError THEN 503 ELSE 500

\* a request whose Origin header cors() refuses: callback(new Error("Not
\* allowed by CORS")) goes to the error middleware, past every route
CorsRefuses(origin) ==
    /\ HasErrorMiddleware(variant) /\ CanAccept
    /\ ~OriginAllowed(origin)
    /\ LET rq == Request("any route", 0, NoBody)
           status == ErrorStatus(FALSE)
       IN  Answer(rq, status,
                  IF status = 503 THEN "Database service unavailable"
                  ELSE "Internal server error", <<>>, pool, FALSE)
    /\ UNCHANGED Untouched

Next ==
    \/ ConnectResolves
    \/ ConnectRejects
    \/ \E ok \in BOOLEAN : TestQueryDone(ok)
    \/ RetryTimer
    \/ ApiGetEvents
    \/ GetEvents
    \/ \E rq \in BagToSet(reqs), ok \in BOOLEAN, o \in Orders(Events) :
          EventsSelected(rq, ok, o)
    \/ \E body \in EventBodies : ApiPostEvents(body)
    \/ \E body \in EventBodies : PostEvents(body)
    \/ \E rq \in BagToSet(reqs), ok \in BOOLEAN : EventInserted(rq, ok)
    \/ \E i \in UrlIds, body \in EventBodies : ApiPutEvent(i, body)
    \/ \E i \in UrlIds, body \in EventBodies : PutEvent(i, body)
    \/ \E rq \in BagToSet(reqs), ok \in BOOLEAN : EventChecked(rq, ok)
    \/ \E rq \in BagToSet(reqs), ok \in BOOLEAN : EventUpdated(rq, ok)
    \/ \E i \in UrlIds : ApiDeleteEvent(i)
    \/ \E i \in UrlIds : DeleteEvent(i)
    \/ \E rq \in BagToSet(reqs), ok \in BOOLEAN : EventDeleted(rq, ok)
    \/ ApiGetAttendees
    \/ \E i \in UrlIds : ApiGetEventAttendees(i)
    \/ \E rq \in BagToSet(reqs), ok \in BOOLEAN, o \in Orders(Attendees) \cup {<<>>} :
          AttendeesSelected(rq, ok, o)
    \/ \E body \in AttendeeBodies : ApiPostAttendees(body)
    \/ \E rq \in BagToSet(reqs), ok \in BOOLEAN : AttendeeEventChecked(rq, ok)
    \/ \E rq \in BagToSet(reqs), ok \in BOOLEAN : AttendeeInserted(rq, ok)
    \/ \E origin \in Origins : CorsRefuses(origin)

Spec == Init /\ [][Next]_vars

(***************************************************************************)
(* The server process over its life: the database becomes unreachable and  *)
(* reachable, clients hold connections to the listening socket open,       *)
(* SIGTERM and SIGINT arrive (cicd.yml 303-321), GET / reports the state   *)
(* of the pool (cicd.yml 128-153).  part_001, whose connectDB does not     *)
(* retry, takes part here.                                                 *)
(***************************************************************************)
MaxSignals == 2     \* signals delivered to the process
MaxSockets == 1     \* client connections open at the same time

LifeVariants == Variants \cup {"part_001"}

Signals == {"SIGTERM", "SIGINT"}

\* the exit code of a process that a signal ends: 128 + the signal's number
KilledBy(sig) == IF sig = "SIGTERM" THEN 143 ELSE 130

\* process.exit(0) in the callback of server.close()
Exit0(p) == [p EXCEPT !.exited = TRUE, !.exitCode = 0, !.draining = 0, !.closing = 0]

\* server.close(callback): the socket stops listening; the callback runs
\* once no client connection is open, at once when none is
ServerClose(p) ==
    IF p.sockets = 0 THEN Exit0([p EXCEPT !.listening = FALSE])
    ELSE [p EXCEPT !.listening = FALSE, !.draining = @ + 1]

\* the handlers a process that has exited no longer resumes
Abandon(p) == IF p.exited THEN EmptyBag ELSE reqs

LifeInit ==
    /\ variant \in LifeVariants
    /\ proc \in {[Booted EXCEPT !.dbUp = up] : up \in BOOLEAN}
    /\ client = NoClient
    /\ pool = FALSE
    /\ conn = "connecting"
    /\ Events = {}
    /\ Attendees = {}
    /\ nextEventId = 1
    /\ nextAttendeeId = 1
    /\ reqs = EmptyBag
    /\ res = NoResponse

LifeFrame == <<client, variant, pool, conn, Events, Attendees, nextEventId, nextAttendeeId>>

\* the database server becomes unreachable, or reachable again
DatabaseFlips ==
    /\ ~proc.exited
    /\ proc' = [proc EXCEPT !.dbUp = ~@]
    /\ res' = NoResponse
    /\ UNCHANGED <<LifeFrame, reqs>>

\* a client opens a connection to the listening socket
SocketOpens ==
    /\ ~proc.exited /\ proc.listening /\ proc.sockets < MaxSockets
    /\ proc' = [proc EXCEPT !.sockets = @ + 1]
    /\ res' = NoResponse
    /\ UNCHANGED <<LifeFrame, reqs>>

\* a client connection ends; the last one to end lets a pending
\* server.close() call its callback
SocketCloses ==
    /\ ~proc.exited /\ proc.sockets > 0
    /\ proc' = IF proc.sockets = 1 /\ proc.draining > 0
               THEN Exit0([proc EXCEPT !.sockets = 0])
               ELSE [proc EXCEPT !.sockets = @ - 1]
    /\ reqs' = Abandon(proc')
    /\ res' = NoResponse
    /\ UNCHANGED LifeFrame

\* SIGTERM or SIGINT arrives.  shutdown runs up to `await pool?.close()`;
\* while pool is undefined the await is of undefined, and shutdown goes on
\* to server.close() before any other event is handled.  A process with no
\* handler for the signal is ended by it.
Signal(sig) ==
    /\ ~proc.exited /\ proc.signals < MaxSignals
    /\ LET p == [proc EXCEPT !.signals = @ + 1] IN
        proc' = IF ~HandlesSignals(variant)
                THEN [p EXCEPT !.exited = TRUE, !.exitCode = KilledBy(sig),
                               !.listening = FALSE]
                ELSE IF pool THEN [p EXCEPT !.closing = @ + 1]
                ELSE ServerClose(p)
    /\ reqs' = Abandon(proc')
    /\ res' = NoResponse
    /\ UNCHANGED LifeFrame

\* `await pool.close()` of a shutdown returns: the pool object is closed;
\* shutdown goes on to server.close()
PoolClosed ==
    /\ ~proc.exited /\ proc.closing > 0
    /\ proc' = ServerClose([proc EXCEPT !.closing = @ - 1, !.poolOpen = FALSE])
    /\ reqs' = Abandon(proc')
    /\ res' = NoResponse
    /\ UNCHANGED LifeFrame

\* the body of the health response
HealthJson(database) == [status |-> "API is running", database |-> database]

\* app.get("/"): `pool.connected` throws while pool is undefined, and the
\* catch block answers 500
Health ==
    /\ HasHealthRoute(variant) /\ ~proc.exited
    /\ LET rq == Request("GET /", 0, NoBody) IN
        IF ~pool
        THEN Answer(rq, 500, "Cannot read properties of undefined",
                    <<HealthJson("connection error")>>, FALSE, FALSE)
        ELSE Answer(rq, 200, "",
                    <<HealthJson(IF proc.poolOpen THEN "connected" ELSE "disconnected")>>,
                    TRUE, FALSE)
    /\ UNCHANGED Untouched

LifeNext ==
    \/ ConnectResolves
    \/ ConnectRejects
    \/ \E ok \in BOOLEAN : TestQueryDone(ok)
    \/ RetryTimer
    \/ DatabaseFlips
    \/ SocketOpens
    \/ SocketCloses
    \/ \E sig \in Signals : Signal(sig)
    \/ PoolClosed
    \/ Health
    \/ ApiGetEvents
    \/ GetEvents
    \/ \E rq \in BagToSet(reqs), ok \in BOOLEAN, o \in Orders(Events) :
          EventsSelected(rq, ok, o)

LifeSpec == LifeInit /\ [][LifeNext]_vars

(***************************************************************************)
(* The client: the React component EventManagement of                      *)
(* src/frontend/src/App.js ("App.js") and the one with attendee            *)
(* registration of src/unnamed/part_002 ("part_002"), in a browser, against *)
(* the /api server.  An event handler runs without interruption up to each *)
(* await of a fetch; the server is seen from outside: a request is         *)
(* answered in one step with one of the responses its handler can give,    *)
(* and Events and Attendees are the server's tables.                       *)
(***************************************************************************)
MaxCalls == 2       \* handler activations of the component in flight
MaxTimers == 1      \* setTimeout callbacks pending

\* App.js is the events-only component; part_002 adds the attendee view.
\* Its two view buttons are never disabled and set nothing but `view`, so
\* a click in either view is possible in every state and `view` is not kept.
Components == {"App.js", "part_002"}

\* an activation of an async function of the component, suspended at an await:
\* pc is "fetch" (its own request) or "fetchEvents" (the awaited fetchEvents());
\* id is the event it is about, live whether that event was in the table
\* when the request left, status the status of its own response, gets the
\* number of GETs of the event list it has sent
Call(fn, pc, i, live, status, gets) ==
    [fn |-> fn, pc |-> pc, id |-> i, live |-> live, status |-> status, gets |-> gets]

\* a response as fetch() delivers it: the status (0: fetch rejected, no
\* response) and whether the body parses as JSON
Outcome(status, json) == [status |-> status, json |-> json]

NetworkError == Outcome(0, FALSE)

\* response.ok
Ok(o) == o.status \in 200..299

\* the body of a non-2xx response of Express itself, which is HTML
\* ("Cannot POST /api/attendees" where the route does not exist)
CannotPost == Outcome(404, FALSE)

\* the ids of the rows in the server's Events table
ServerIds == {row.id : row \in Events}

\* the responses of the server's handlers, by the state of its table when
\* it answers; the bodies the component sends have every field, so no
\* handler answers 400
GetOutcomes == {Outcome(200, TRUE), Outcome(500, TRUE), NetworkError}

PostOutcomes ==
    (IF nextEventId <= MaxEvents THEN {Outcome(201, TRUE)} ELSE {})
        \cup {Outcome(500, TRUE), NetworkError}

\* PUT: 200 with the row; 404 when the existence check finds no row; 200
\* with an empty body (res.json(undefined)) when the row went between the
\* check and the UPDATE, which takes a row that was there when the request
\* left
PutOutcomes(i, live) ==
    (IF i \in ServerIds THEN {Outcome(200, TRUE)}
     ELSE {Outcome(404, TRUE)} \cup (IF live THEN {Outcome(200, FALSE)} ELSE {}))
        \cup {Outcome(500, TRUE), NetworkError}

DeleteOutcomes(i) ==
    (IF i \in ServerIds THEN {Outcome(200, TRUE)}
     ELSE {Outcome(404, TRUE)})
        \cup {Outcome(500, TRUE), NetworkError}

PostAttendeeOutcomes(i) ==
    (IF i \in ServerIds
     THEN (IF nextAttendeeId <= MaxAttendees THEN {Outcome(201, TRUE)} ELSE {})
     ELSE {Outcome(404, TRUE)})
        \cup {Outcome(500, TRUE), CannotPost, NetworkError}

\* err.message in the catch block of handleSubmit: errorData.error ||
\* "Request failed", or what fetch() or response.json() threw
SubmitError(put, o) ==
    IF o.status = 0 THEN "Failed to fetch"
    ELSE IF ~o.json THEN "Unexpected end of JSON input"
    ELSE IF o.status = 404 THEN "Event not found"
    ELSE IF put THEN "Failed to update event"
    ELSE "Failed to create event"

\* the message handleAttendeeSubmit shows
AttendeeError(o) ==
    IF o.status = 0 THEN "Failed to fetch"
    ELSE IF ~o.json THEN "Server endpoint not configured properly"
    ELSE IF o.status = 404 THEN "Event not found"
    ELSE "Failed to register attendee"

\* the component after its first render and its effect: fetchEvents() has
\* set loading and awaits its GET
Mounted(component) ==
    [component |-> component, events |-> {}, editingId |-> 0, loading |-> TRUE,
     error |-> "", success |-> "", timers |-> 0, selectedEvent |-> 0,
     attendees |-> {}, calls |-> {Call("fetchEvents", "fetch", 0, FALSE, 0, 1)},
     attendeesFailed |-> FALSE]

ClientInit ==
    /\ variant = "part_000"
    /\ client \in {Mounted(component) : component \in Components}
    /\ pool = TRUE
    /\ conn = "settled"
    /\ proc = [Booted EXCEPT !.poolOpen = TRUE]
    /\ Events = {}
    /\ Attendees = {}
    /\ nextEventId = 1
    /\ nextAttendeeId = 1
    /\ reqs = EmptyBag
    /\ res = NoResponse

\* what the client's own steps leave alone
Browser == <<variant, pool, conn, proc, reqs, res>>

\* room for one more activation, and for the timer a mutation will set
CanCall == Cardinality(client.calls) < MaxCalls

CanSetTimer ==
    client.timers
        + Cardinality({c \in client.calls : c.fn \in {"handleSubmit", "handleDelete"}})
        < MaxTimers

\* fetchEvents() up to its await: setLoading(true); setError("")
FetchEventsStarts(c) == [c EXCEPT !.loading = TRUE, !.error = ""]

\* the finally block of handleSubmit and of handleDelete:
\* setLoading(false); setTimeout(() => setSuccess(""), 3000)
FinallySetsTimer(c) == [c EXCEPT !.loading = FALSE, !.timers = @ + 1]

\* err.message in the catch block of fetchEvents
GetError(o) == IF o.status = 0 THEN "Failed to fetch" ELSE "HTTP error! status: 500"

\* handleSubmit up to `await fetch(url, ...)`: a PUT while editingId is set,
\* else a POST
handleSubmit ==
    /\ ~client.loading /\ CanCall /\ CanSetTimer
    /\ client' = [client EXCEPT
            !.loading = TRUE, !.error = "", !.success = "",
            !.calls = @ \cup {Call("handleSubmit", "fetch", client.editingId,
                                   client.editingId \in ServerIds, 0, 0)}]
    /\ UNCHANGED <<Browser, Events, Attendees, nextEventId, nextAttendeeId>>

\* the response of the POST or PUT arrives: on a 2xx whose body parses,
\* setSuccess, setEditingId(null) and `await fetchEvents()`; else the catch
\* block; the finally block when the handler ends here
handleSubmitFetched(c, o) ==
    /\ c \in client.calls /\ c.fn = "handleSubmit" /\ c.pc = "fetch"
    /\ o \in (IF c.id = 0 THEN PostOutcomes ELSE PutOutcomes(c.id, c.live))
    /\ IF o.status = 201
       THEN /\ Events' = Events \cup
                  {InsertEvent(nextEventId, Launch.v, NewDate(June1.v).t, HQ.v)}
            /\ nextEventId' = nextEventId + 1
       ELSE UNCHANGED <<Events, nextEventId>>
    /\ client' =
          IF Ok(o) /\ o.json
          THEN [FetchEventsStarts(client) EXCEPT
                  !.success = IF c.id # 0 THEN "Event updated successfully!"
                              ELSE "Event created successfully!",
                  !.editingId = 0,
                  !.calls = (@ \ {c}) \cup
                      {[c EXCEPT !.pc = "fetchEvents", !.status = o.status, !.gets = @ + 1]}]
          ELSE [FinallySetsTimer(client) EXCEPT
                  !.error = SubmitError(c.id # 0, o),
                  !.calls = @ \ {c}]
    /\ UNCHANGED <<Browser, Attendees, nextAttendeeId>>

\* the response of a GET of the event list arrives, in fetchEvents() called
\* by the effect or awaited by handleSubmit or handleDelete, which then run
\* their finally block
fetchEventsFetched(c, o) ==
    /\ c \in client.calls
    /\ \/ c.fn = "fetchEvents" /\ c.pc = "fetch"
       \/ c.pc = "fetchEvents"
    /\ o \in GetOutcomes
    /\ LET after == [client EXCEPT
                       !.events = IF Ok(o) THEN ServerIds ELSE @,
                       !.error = IF Ok(o) THEN @ ELSE GetError(o),
                       !.loading = FALSE,
                       !.calls = @ \ {c}]
       IN  client' = IF c.fn = "fetchEvents" THEN after ELSE FinallySetsTimer(after)
    /\ UNCHANGED <<Browser, Events, Attendees, nextEventId, nextAttendeeId>>

\* handleDelete(id) up to `await fetch(..., { method: "DELETE" })`, for the
\* Delete button of a listed event, the confirm() accepted
handleDelete(i) ==
    /\ ~client.loading /\ CanCall /\ CanSetTimer
    /\ i \in client.events
    /\ client' = [client EXCEPT
            !.loading = TRUE, !.error = "",
            !.calls = @ \cup {Call("handleDelete", "fetch", i, i \in ServerIds, 0, 0)}]
    /\ UNCHANGED <<Browser, Events, Attendees, nextEventId, nextAttendeeId>>

\* the response of the DELETE arrives
handleDeleteFetched(c, o) ==
    /\ c \in client.calls /\ c.fn = "handleDelete" /\ c.pc = "fetch"
    /\ o \in DeleteOutcomes(c.id)
    /\ Events' = IF o.status = 200 THEN DeleteFromEvents(Events, c.id) ELSE Events
    /\ client' =
          IF Ok(o)
          THEN [FetchEventsStarts(client) EXCEPT
                  !.success = "Event deleted successfully!",
                  !.calls = (@ \ {c}) \cup
                      {[c EXCEPT !.pc = "fetchEvents", !.status = o.status, !.gets = @ + 1]}]
          ELSE [FinallySetsTimer(client) EXCEPT
                  !.error = IF o.status = 0 THEN "Failed to fetch" ELSE "Delete failed",
                  !.calls = @ \ {c}]
    /\ UNCHANGED <<Browser, Attendees, nextEventId, nextAttendeeId>>

\* handleEdit(event), for the Edit button of a listed event
handleEdit(i) ==
    /\ ~client.loading /\ i \in client.events
    /\ client' = [client EXCEPT !.editingId = i]
    /\ UNCHANGED <<Browser, Events, Attendees, nextEventId, nextAttendeeId>>

\* the Cancel button, which is rendered while editingId is set
cancelEdit ==
    /\ ~client.loading /\ client.editingId # 0
    /\ client' = [client EXCEPT !.editingId = 0]
    /\ UNCHANGED <<Browser, Events, Attendees, nextEventId, nextAttendeeId>>

\* a callback of setTimeout(() => setSuccess(""), 3000) runs
successTimer ==
    /\ client.timers > 0
    /\ client' = [client EXCEPT !.success = "", !.timers = @ - 1]
    /\ UNCHANGED <<Browser, Events, Attendees, nextEventId, nextAttendeeId>>

\* the activation of fetchAttendees(eventId) that awaits its GET
AttendeesCall(i) == Call("fetchAttendees", "fetch", i, i \in ServerIds, 0, 0)

\* the activations of fetchAttendees in flight
AttendeeFetches(c) == {d \in c.calls : d.fn = "fetchAttendees"}

\* fetchAttendees(eventId) up to its await: setLoading(true)
FetchAttendeesStarts(c, i) ==
    [c EXCEPT !.loading = TRUE, !.calls = @ \cup {AttendeesCall(i)}]

\* handleViewEvent(event), for the View Details button of a listed event
\* (the list is rendered while no event is selected):
\* setSelectedEvent(event); fetchAttendees(event.id)
handleViewEvent(i) ==
    /\ client.component = "part_002" /\ CanCall
    /\ client.selectedEvent = 0 /\ i \in client.events
    /\ AttendeesCall(i) \notin client.calls
    /\ client' = [FetchAttendeesStarts(client, i) EXCEPT !.selectedEvent = i]
    /\ UNCHANGED <<Browser, Events, Attendees, nextEventId, nextAttendeeId>>

\* the Back to Events button: setSelectedEvent(null)
backToEvents ==
    /\ client.component = "part_002" /\ client.selectedEvent # 0
    /\ client' = [client EXCEPT !.selectedEvent = 0]
    /\ UNCHANGED <<Browser, Events, Attendees, nextEventId, nextAttendeeId>>

\* the response of GET /events/:id/attendees arrives in fetchAttendees;
\* attendeesFailed records that a fetchAttendees call has failed
fetchAttendeesFetched(c, o) ==
    /\ c \in client.calls /\ c.fn = "fetchAttendees"
    /\ o \in GetOutcomes
    /\ client' = [client EXCEPT
            !.attendees = IF Ok(o)
                          THEN {a.id : a \in SelectAttendeesByEvent(Attendees, c.id)}
                          ELSE @,
            !.error = IF Ok(o) THEN @
                      ELSE IF o.status = 0 THEN "Failed to fetch"
                      ELSE "Failed to fetch attendees",
            !.loading = FALSE,
            !.calls = @ \ {c},
            !.attendeesFailed = IF Ok(o) THEN @ ELSE TRUE]
    /\ UNCHANGED <<Browser, Events, Attendees, nextEventId, nextAttendeeId>>

\* handleAttendeeSubmit up to `await fetch(.../attendees, ...)`, for the
\* Register button of the selected event
handleAttendeeSubmit ==
    /\ client.component = "part_002" /\ CanCall
    /\ ~client.loading /\ client.selectedEvent # 0
    /\ client' = [client EXCEPT
            !.loading = TRUE, !.error = "", !.success = "",
            !.calls = @ \cup {Call("handleAttendeeSubmit", "fetch", client.selectedEvent,
                                   client.selectedEvent \in ServerIds, 0, 0)}]
    /\ UNCHANGED <<Browser, Events, Attendees, nextEventId, nextAttendeeId>>

\* the response of POST /attendees arrives: on a 2xx with a JSON body,
\* setSuccess and fetchAttendees(selectedEvent.id), which is not awaited;
\* else the catch block; then the finally block, setLoading(false)
handleAttendeeSubmitFetched(c, o) ==
    /\ c \in client.calls /\ c.fn = "handleAttendeeSubmit"
    /\ o \in PostAttendeeOutcomes(c.id)
    /\ AttendeesCall(c.id) \notin client.calls
    /\ IF o.status = 201
       THEN /\ Attendees' = Attendees \cup
                  {AttendeeRow(nextAttendeeId, Ann.v, Mail.v, c.id)}
            /\ nextAttendeeId' = nextAttendeeId + 1
       ELSE UNCHANGED <<Attendees, nextAttendeeId>>
    /\ LET gone == [client EXCEPT !.calls = @ \ {c}] IN
        client' =
          IF Ok(o) /\ o.json
          THEN [FetchAttendeesStarts(gone, c.id) EXCEPT
                  !.success = "Registered successfully!",
                  !.loading = FALSE]
          ELSE [gone EXCEPT
                  !.error = AttendeeError(o),
                  !.loading = FALSE]
    /\ UNCHANGED <<Browser, Events, nextEventId>>

\* another client has an event deleted
ElsewhereDeleted(i) ==
    /\ i \in ServerIds
    /\ Events' = DeleteFromEvents(Events, i)
    /\ UNCHANGED <<client, Browser, Attendees, nextEventId, nextAttendeeId>>

ClientNext ==
    \/ handleSubmit
    \/ \E c \in client.calls : \E o \in PostOutcomes \cup PutOutcomes(c.id, c.live) :
          handleSubmitFetched(c, o)
    \/ \E c \in client.calls, o \in GetOutcomes : fetchEventsFetched(c, o)
    \/ \E i \in EventIds : handleDelete(i)
    \/ \E c \in client.calls : \E o \in DeleteOutcomes(c.id) : handleDeleteFetched(c, o)
    \/ \E i \in EventIds : handleEdit(i)
    \/ cancelEdit
    \/ successTimer
    \/ \E i \in EventIds : handleViewEvent(i)
    \/ backToEvents
    \/ \E c \in client.calls, o \in GetOutcomes : fetchAttendeesFetched(c, o)
    \/ handleAttendeeSubmit
    \/ \E c \in client.calls : \E o \in PostAttendeeOutcomes(c.id) :
          handleAttendeeSubmitFetched(c, o)
    \/ \E i \in EventIds : ElsewhereDeleted(i)

ClientSpec == ClientInit /\ [][ClientNext]_vars

(***************************************************************************)
(* Vocabulary of the properties.                                           *)
(***************************************************************************)
IsPostEvents(r) == r.route \in {"POST /api/events", "POST /events"}
IsPutEvent(r) == r.route \in {"PUT /api/events/:id", "PUT /events/:id"}
IsDeleteEvent(r) == r.route \in {"DELETE /api/events/:id", "DELETE /events/:id"}
IsPostAttendees(r) == r.route = "POST /api/attendees"

\* name, date and location present and non-empty, and the date parses
ValidEventBody(body) ==
    /\ TruthyText(body.name) /\ TruthyDate(body.date) /\ TruthyText(body.location)
    /\ NewDate(body.date.v).valid

\* some field of name, date, location is missing or empty
FieldMissingOrEmpty(body) ==
    \/ ~body.name.def \/ body.name.v = <<>>
    \/ ~body.date.def \/ body.date.v = ""
    \/ ~body.location.def \/ body.location.v = <<>>

\* name and location present and non-empty, the date present and unparsable
UnparsableDateBody(body) ==
    /\ TruthyText(body.name) /\ TruthyText(body.location)
    /\ TruthyDate(body.date) /\ ~NewDate(body.date.v).valid

\* some, but not all, of name, date and location are in the body
PartialBody(body) ==
    /\ body.name.def \/ body.date.def \/ body.location.def
    /\ ~(body.name.def /\ body.date.def /\ body.location.def)

EventIdsOf(T) == {row.id : row \in T}

\* the handler ran on a connected server and none of its database calls failed
Served(r) == r.connected /\ ~r.dbError

\* C1: a POST /events with a valid body, on a connected server whose database
\* call succeeds, returns 201 with the stored row; the row is in the table
\* with the submitted name and location and the submitted instant.
C1_ValidPostCreates ==
    (IsPostEvents(res) /\ Served(res) /\ ValidEventBody(res.body)) =>
        /\ res.status = 201
        /\ Len(res.payload) = 1
        /\ res.payload[1].name = res.body.name.v
        /\ res.payload[1].location = res.body.location.v
        /\ NewDate(res.payload[1].date) = NewDate(res.body.date.v)
        /\ \E row \in Events : EventJson(row) = res.payload[1]

\* C2: a POST /events with name, date or location missing or empty returns
\* 400 (on a connected server), and no step that answers it changes Events.
C2_MissingFieldIs400 ==
    (IsPostEvents(res) /\ res.connected /\ FieldMissingOrEmpty(res.body)) =>
        res.status = 400

\* C3: a POST /events whose date does not parse returns 400 with an error
\* other than the missing-field one; no INSERT is ever sent for it.
C3_UnparsableDateIs400 ==
    /\ (IsPostEvents(res) /\ res.connected /\ UnparsableDateBody(res.body)) =>
          /\ res.status = 400
          /\ res.error \notin {"Missing fields", "Missing required fields"}
    /\ \A rq \in Suspended("INSERT Events") : ~UnparsableDateBody(rq.body)

\* C4: a PUT /events/:id for an id that is not in Events returns 404,
\* whatever the body.  (Stated for an id that no Event has had yet, so that
\* the id was absent for as long as the handler ran.)
C4_PutUnknownIdIs404 ==
    (IsPutEvent(res) /\ Served(res) /\ res.id >= nextEventId) =>
        res.status = 404

\* C5: a PUT /events/:id on an existing event with only some of the fields
\* in the body returns 200.
C5_PartialPutIs200 ==
    (IsPutEvent(res) /\ Served(res) /\ PartialBody(res.body)
        /\ res.id \in EventIdsOf(Events)) =>
        res.status = 200

\* C6: every 200 response to a PUT /events/:id carries the row of that event.
C6_PutOkCarriesRow ==
    (IsPutEvent(res) /\ res.status = 200) =>
        /\ Len(res.payload) = 1
        /\ res.payload[1].id = res.id

\* C7: a DELETE /events/:id that reaches the database answers 200 with the
\* row's prior contents and removes exactly that row when the id is in the
\* table, and answers 404 and changes nothing when it is not; an id that
\* has left the table never returns, so every later DELETE of it is a 404.
C7_DeleteOnceThen404 ==
    [][ /\ (IsDeleteEvent(res') /\ Served(res')) =>
              IF res'.id \in EventIdsOf(Events)
              THEN /\ res'.status = 200
                   /\ \E row \in Events :
                        /\ row.id = res'.id
                        /\ res'.payload = <<EventJson(row)>>
                        /\ Events' = Events \ {row}
              ELSE /\ res'.status = 404
                   /\ Events' = Events
        /\ \A i \in EventIds :
              (i < nextEventId /\ i \notin EventIdsOf(Events)) =>
                  i \notin EventIdsOf(Events') ]_vars

\* the second DELETE of an id: the id was assigned, is gone, and the answer is 404
C7_Witness ==
    /\ IsDeleteEvent(res) /\ Served(res) /\ res.status = 404
    /\ res.id < nextEventId

\* C8: a POST /attendees with name and email present and an eventId that
\* matches no row of Events returns 404.  (Stated for an eventId that no
\* Event has had yet, so that it matched no row for as long as the handler
\* ran.)
C8_UnknownEventIs404 ==
    (IsPostAttendees(res) /\ Served(res)
        /\ TruthyText(res.body.name) /\ TruthyText(res.body.email)
        /\ res.body.eventId.def
        /\ res.body.eventId.v \notin 1..(nextEventId - 1)) =>
        res.status = 404

\* C9 as claimed: every Attendee row is inserted while the Event it
\* references is in the Events table.
C9_EventLiveAtInsert ==
    [][ \A a \in Attendees' \ Attendees : a.event_id \in EventIdsOf(Events) ]_vars

\* C9 as amended: every Attendee row is inserted by a handler whose
\* existence check found the referenced Event in the table: a handler comes
\* to await the INSERT only in a step in which the Event is present, and a
\* row is only added for a handler that awaits the INSERT.
C9_EventLiveAtCheck ==
    [][ /\ \A rq \in Suspended("INSERT Attendees")' :
              CopiesIn(rq, reqs') > CopiesIn(rq, reqs) =>
                  rq.body.eventId.v \in EventIdsOf(Events)
        /\ \A a \in Attendees' \ Attendees :
              \E rq \in Suspended("INSERT Attendees") :
                  /\ rq.body.eventId.v = a.event_id
                  /\ CopiesIn(rq, reqs') < CopiesIn(rq, reqs) ]_vars

\* an Attendee row was just inserted for an Event that is no longer there
C9_Witness ==
    /\ IsPostAttendees(res) /\ res.status = 201
    /\ res.payload[1].event_id \notin EventIdsOf(Events)

\* C10: while pool is unset every request is answered at once with a 5xx,
\* no handler comes to await a database call, and no table changes.
C10_Before ==
    [][ ~pool =>
          /\ reqs' = EmptyBag
          /\ res' # NoResponse => (res'.status \in 500..599 /\ ~res'.connected)
          /\ UNCHANGED <<Events, Attendees, nextEventId, nextAttendeeId>> ]_vars

\* a POST /events with a field missing was answered before the connection
C10_Witness ==
    /\ IsPostEvents(res) /\ ~res.connected /\ FieldMissingOrEmpty(res.body)
    /\ res.status = 500 /\ res.error = "DB not connected" /\ ~pool

\* C11: every failed attempt to open the pool is followed by another one:
\* while pool is unset in a running process, a connection attempt is in
\* flight or the retry timer is pending (so that a database that becomes
\* and stays reachable is connected to in the end).
C11_RetryPending ==
    (~pool /\ ~proc.exited) => conn \in {"connecting", "timer"}

\* C12: a process that shuts down on SIGTERM or SIGINT has, when it exits,
\* closed the listening socket and every connection pool it opened, and
\* exits with code 0.
C12_ExitClean ==
    (HandlesSignals(variant) /\ proc.exited) =>
        /\ proc.exitCode = 0
        /\ ~proc.listening
        /\ ~proc.poolOpen

C14_IdsUniqueImmutable ==
    [][ /\ \A r1, r2 \in Events' : r1.id = r2.id => r1 = r2
        /\ IsPutEvent(res') => EventIdsOf(Events') = EventIdsOf(Events) ]_vars

\* a PUT whose body carries another id than the URL has updated the row
C14_Witness ==
    /\ IsPutEvent(res) /\ res.status = 200
    /\ res.body.id.def /\ res.body.id.v # res.id
    /\ Len(res.payload) = 1 /\ res.payload[1].id = res.id
    /\ Cardinality(Events) = MaxEvents

\* C15: every response to GET / is a 200 whose payload carries the
\* database-connectivity flag, whatever the state of the server.
C15_HealthAlways200 ==
    res.route = "GET /" =>
        /\ res.status = 200
        /\ Len(res.payload) = 1
        /\ res.payload[1].database \in {"connected", "disconnected"}

\* the messages of the error middleware
MiddlewareErrors == {"Internal server error", "Database service unavailable"}

\* C16: a step in which a database call of a handler fails sends one
\* response, a 500 with the handler's own message, for exactly that handler,
\* and the process keeps running with the other handlers still suspended;
\* a request that cors() refuses is answered 500 by the error middleware,
\* and the process keeps running.
C16_ErrorsAnswered ==
    [][ /\ res'.dbError =>
              /\ res'.status = 500
              /\ res'.error \notin MiddlewareErrors
              /\ \E rq \in BagToSet(reqs) :
                    /\ rq.route = res'.route /\ rq.id = res'.id /\ rq.body = res'.body
                    /\ reqs' = reqs (-) SetToBag({rq})
              /\ ~proc'.exited
        /\ res'.route = "any route" =>
              /\ res'.status = 500
              /\ res'.error = "Internal server error"
              /\ reqs' = reqs
              /\ ~proc'.exited ]_vars

\* on the server that has the error middleware, a DELETE whose database
\* call failed was answered by its handler while another handler waits
C16_Witness ==
    /\ HasErrorMiddleware(variant) /\ IsDeleteEvent(res)
    /\ res.dbError /\ res.status = 500 /\ res.error = "Failed to delete event"
    /\ reqs # EmptyBag

IsGetEvents(r) == r.route \in {"GET /api/events", "GET /events"}

\* C17: a GET /events that is served (connected, no database failure)
\* returns 200 with every row of Events exactly once, in descending order
\* of date.
C17_ListAllByDateDesc ==
    (IsGetEvents(res) /\ Served(res)) =>
        /\ res.status = 200
        /\ Len(res.payload) = Cardinality(Events)
        /\ {res.payload[i] : i \in DOMAIN res.payload} = {EventJson(row) : row \in Events}
        /\ \A i, j \in DOMAIN res.payload :
              i < j => NewDate(res.payload[i].date).t >= NewDate(res.payload[j].date).t

IsGetAttendees(r) == r.route \in {"GET /api/attendees", "GET /api/events/:id/attendees"}

\* the Attendee rows the request r asks for
AttendeesAskedFor(r) ==
    IF r.route = "GET /api/attendees" THEN Attendees
    ELSE {a \in Attendees : a.event_id = r.id}

\* C18: a step that answers a DELETE /events/:id leaves the Attendees table
\* as it was; and a GET /attendees or GET /events/:id/attendees that is
\* served returns every Attendee row it asks for, whether or not the
\* row's event is still in Events.
C18_DeleteKeepsAttendees ==
    [][ /\ IsDeleteEvent(res') => Attendees' = Attendees
        /\ (IsGetAttendees(res') /\ Served(res')) =>
              /\ res'.status = 200
              /\ {res'.payload[i] : i \in DOMAIN res'.payload} = AttendeesAskedFor(res') ]_vars

\* the attendees of a deleted event have been listed, and there was one
C18_Witness ==
    /\ res.route = "GET /api/events/:id/attendees" /\ res.status = 200
    /\ res.id \notin EventIdsOf(Events)
    /\ Len(res.payload) = 1 /\ res.payload[1].event_id = res.id

\* the activation c, which received the response o to its mutation, goes on
\* as the claim has it: after a 2xx it is suspended at the one GET of the
\* event list it sent; otherwise it has ended, nothing was sent and the
\* local list is as it was
Refetches(c, o) ==
    IF Ok(o)
    THEN \E d \in client'.calls :
            /\ d.fn = c.fn /\ d.pc = "fetchEvents" /\ d.gets = 1
            /\ client'.calls = (client.calls \ {c}) \cup {d}
    ELSE /\ client'.calls = client.calls \ {c}
         /\ client'.events = client.events

\* C19: in every step in which handleSubmit or handleDelete receives the
\* response to its POST, PUT or DELETE, a 2xx is followed by exactly one GET
\* of the event list, which the handler awaits, and anything else by no
\* request and no change of the local list; and in the step in which that
\* GET is answered with a 2xx the local list becomes the list of the
\* response, and the handler finishes without another request.
C19_RefetchAfterSuccess ==
    [][ \A c \in client.calls :
          /\ \A o \in PostOutcomes \cup PutOutcomes(c.id, c.live) :
                handleSubmitFetched(c, o) => Refetches(c, o)
          /\ \A o \in DeleteOutcomes(c.id) :
                handleDeleteFetched(c, o) => Refetches(c, o)
          /\ \A o \in GetOutcomes :
                (c.pc = "fetchEvents" /\ fetchEventsFetched(c, o)) =>
                    /\ client'.calls = client.calls \ {c}
                    /\ Ok(o) => client'.events = ServerIds ]_vars

\* a setTimeout(() => setSuccess(""), 3000) is pending, or an activation is
\* in flight whose finally block sets one
ClearingTimerAhead(c) ==
    \/ c.timers > 0
    \/ \E d \in c.calls : d.fn \in {"handleSubmit", "handleDelete"}

\* the response o is a non-2xx response (status 0: there was no response)
NonOk(o) == o.status # 0 /\ ~Ok(o)

\* C20: every step in which the component receives a non-2xx response
\* leaves a non-empty error banner, and after every step a success banner
\* that is shown has a clearing timer ahead of it (pending, or set by the
\* finally block of a handler in flight), so that it is cleared without
\* another interaction.
C20_BannersSurfaceAndClear ==
    [][ /\ \A c \in client.calls :
              /\ \A o \in PostOutcomes \cup PutOutcomes(c.id, c.live) :
                    (NonOk(o) /\ handleSubmitFetched(c, o)) => client'.error # ""
              /\ \A o \in DeleteOutcomes(c.id) :
                    (NonOk(o) /\ handleDeleteFetched(c, o)) => client'.error # ""
              /\ \A o \in PostAttendeeOutcomes(c.id) :
                    (NonOk(o) /\ handleAttendeeSubmitFetched(c, o)) => client'.error # ""
              /\ \A o \in GetOutcomes :
                    (NonOk(o) /\ (fetchEventsFetched(c, o) \/ fetchAttendeesFetched(c, o)))
                        => client'.error # ""
        /\ client'.success # "" => ClearingTimerAhead(client') ]_vars

\* how many DELETE handlers of the id i await their statement, B being the
\* bag of the suspended handlers
DeletesInFlight(B, i) ==
    BagCardinality([rq \in {d \in BagToSet(B) : d.pc = "DELETE Events" /\ d.id = i}
                        |-> B[rq]])

\* C21: when two DELETE /events/:id of the same id, whose row is in the
\* table, await their statement at the same time, the one whose statement
\* the database executes first answers 200 with the row and removes it while
\* the other still waits; and a DELETE that was left waiting for an id
\* whose row is gone answers 404 and removes nothing: the row is reported
\* as deleted once.
C21_ConcurrentDeletesOnce200 ==
    [][ (IsDeleteEvent(res') /\ Served(res')) =>
          /\ (DeletesInFlight(reqs, res'.id) = 2 /\ res'.id \in EventIdsOf(Events)) =>
                /\ res'.status = 200
                /\ \E row \in Events :
                      row.id = res'.id /\ res'.payload = <<EventJson(row)>>
                /\ res'.id \notin EventIdsOf(Events')
                /\ DeletesInFlight(reqs', res'.id) = 1
          /\ (res'.id \notin EventIdsOf(Events)) =>
                /\ res'.status = 404
                /\ res'.payload = <<>>
                /\ Events' = Events ]_vars

\* the first of two concurrent DELETEs of an id has answered 200 with the
\* row, and the second still awaits its statement
C21_Witness ==
    /\ IsDeleteEvent(res) /\ Served(res) /\ res.status = 200
    /\ Len(res.payload) = 1
    /\ DeletesInFlight(reqs, res.id) = 1

\* C22: in the server that verifies the new pool with SELECT 1, the shared
\* pool variable is unset whenever a reconnect timer is pending.
C22_TimerMeansNoPool ==
    (TestsPool(variant) /\ conn = "timer") => ~pool

\* C23: the loading flag is true whenever a request of the component is in
\* flight (every activation in client.calls awaits the response of one).
C23_LoadingWhileInFlight ==
    client.calls # {} => client.loading

\* C24: when an event is selected, no fetchAttendees call is in flight and
\* no fetchAttendees call has failed, the attendees shown are those of the
\* selected event.
C24_AttendeesOfSelected ==
    (/\ client.component = "part_002" /\ client.selectedEvent # 0
     /\ AttendeeFetches(client) = {} /\ ~client.attendeesFailed) =>
        client.attendees =
            {a.id : a \in SelectAttendeesByEvent(Attendees, client.selectedEvent)}

\* C25: whenever no request of the component is in flight and editingId is
\* set, it is the id of an event of the local events list.
C25_EditingIdListed ==
    (client.calls = {} /\ client.editingId # 0) =>
        client.editingId \in client.events

=============================================================================
